---- MODULE Spec2Model ----
(***************************************************************************)
(* Atlas backend (src/backend): line chunking, import-edge extraction,     *)
(* retrieval ranking, output hashing, file analysis, and the ingest        *)
(* pipeline with its two-layer graph cache.                                *)
(*                                                                         *)
(* One module, several specifications over the same variables:             *)
(*   SpecChunk       chunk_file                   (parser.py)              *)
(*   SpecEdges       extract_edges                (parser.py)              *)
(*   SpecQuery       query_chunks, one call       (embeddings.py)          *)
(*   SpecQueryTwice  query_chunks, two calls      (embeddings.py)          *)
(*   SpecHash        hash_output                  (validation.py)          *)
(*   SpecAnalyze     analyze_repo_files           (llm.py)                 *)
(*   SpecPath        generate_onboarding_path     (llm.py)                 *)
(*   SpecValidate    validate_deterministic       (validation.py)          *)
(*   SpecResolve     _resolve_relative_import     (parser.py)              *)
(*   SpecQueryEndpoint  query()                   (main.py)                *)
(*   Spec            ingest / graph cache         (main.py)                *)
(*   SpecReingest    ingests one after the other  (main.py)                *)
(* A specification leaves the variables of the other parts at Idle.        *)
(***************************************************************************)
EXTENDS Integers, Sequences, FiniteSets, TLC

VARIABLES
    phase,          \* "input" before the function under study ran, "done" after;
                    \* "ingest" in the specification of the endpoints
    chunk_file_in,  \* chunk_file: the file: [readable, len, nonblank]
    chunk_file_out, \* chunk_file: the returned list of chunks
    ee_files,       \* extract_edges: the list `files`
    ee_pos,         \* extract_edges: position of `rel` in `files`
    ee_matches,     \* extract_edges: import matches handled so far
    ee_edges,       \* extract_edges: the list `edges`
    ee_seen,        \* extract_edges: the set `seen`
    qc_results,     \* query_chunks: what coll.query returned, per call
    qc_out,         \* query_chunks: the returned list, per call
    ho_outputs,     \* hash_output: the two outputs hashed
    ho_hashes,      \* hash_output: their digests
    ar_files,       \* analyze_repo_files: what reading each file of `files` gives
    ar_i,           \* analyze_repo_files: the batch loop's index i
    ar_results,     \* analyze_repo_files: the dict `results`
    graph_cache,    \* main.py: _graph_cache[rid], <<>> or <<entry>>
    disk,           \* main.py: the file .graph_cache/<rid>.json, <<>> or <<file>>
    clone_dir,      \* the directory CLONE_DIR/<rid>: "absent", "partial", "cloned"
    collection,     \* the vector collection repo_<rid>: per chunk id, the run that stored it
    pc,             \* per thread (0: the /graph handler, r >= 1: ingest run r) its position
    events,         \* per ingest run, the events its stream has carried
    data,           \* per thread, the entry it is saving
    last_load,      \* what the last _load_graph call returned
    op_analyses,    \* generate_onboarding_path: file_analyses, in insertion order
    op_reply,       \* generate_onboarding_path: what the language-model request gave
    op_result,      \* generate_onboarding_path: the returned path, or "raised"
    qe_ingested,    \* query(): whether the repository id was ever ingested
    qe_collection,  \* query(): the vector collection repo_<rid>
    qe_response,    \* query(): the response of the last request
    vd_outputs,     \* validate_deterministic: the list `outputs`
    vd_tolerance,   \* validate_deterministic: `tolerance`
    vd_result,      \* validate_deterministic: the returned pair
    ri_source,      \* _resolve_relative_import: source_file
    ri_target,      \* _resolve_relative_import: target
    ri_files,       \* _resolve_relative_import: all_files
    ri_result       \* _resolve_relative_import: the returned path or None

varsChunk == <<chunk_file_in, chunk_file_out>>

varsEdges == <<ee_files, ee_pos, ee_matches, ee_edges, ee_seen>>

varsQuery == <<qc_results, qc_out>>

varsHash == <<ho_outputs, ho_hashes>>

varsAnalyze == <<ar_files, ar_i, ar_results>>

varsIngest == <<graph_cache, disk, clone_dir, collection, pc, events, data, last_load>>

varsPath == <<op_analyses, op_reply, op_result>>

varsQueryEndpoint == <<qe_ingested, qe_collection, qe_response>>

varsValidate == <<vd_outputs, vd_tolerance, vd_result>>

varsResolve == <<ri_source, ri_target, ri_files, ri_result>>

varsMore == <<varsPath, varsQueryEndpoint, varsValidate, varsResolve>>

vars == <<phase, varsChunk, varsEdges, varsQuery, varsHash, varsAnalyze, varsIngest, varsMore>>

Idle == "idle"

ChunkIdle == chunk_file_in = Idle /\ chunk_file_out = Idle

EdgesIdle ==
    /\ ee_files = Idle /\ ee_pos = Idle /\ ee_matches = Idle
    /\ ee_edges = Idle /\ ee_seen = Idle

QueryIdle == qc_results = Idle /\ qc_out = Idle

HashIdle == ho_outputs = Idle /\ ho_hashes = Idle

AnalyzeIdle == ar_files = Idle /\ ar_i = Idle /\ ar_results = Idle

IngestIdle ==
    /\ graph_cache = Idle /\ disk = Idle /\ clone_dir = Idle /\ collection = Idle
    /\ pc = Idle /\ events = Idle /\ data = Idle /\ last_load = Idle

PathIdle == op_analyses = Idle /\ op_reply = Idle /\ op_result = Idle

QueryEndpointIdle == qe_ingested = Idle /\ qe_collection = Idle /\ qe_response = Idle

ValidateIdle == vd_outputs = Idle /\ vd_tolerance = Idle /\ vd_result = Idle

ResolveIdle == ri_source = Idle /\ ri_target = Idle /\ ri_files = Idle /\ ri_result = Idle

MoreIdle == PathIdle /\ QueryEndpointIdle /\ ValidateIdle /\ ResolveIdle

Min(a, b) == IF a < b THEN a ELSE b

Range(s) == {s[i] : i \in 1..Len(s)}

Front(s) == SubSeq(s, 1, Len(s) - 1)

Last(s) == s[Len(s)]

\* The code points of the characters the model's strings are made of.
Ord ==
    [c \in {".", "/", "_"} |-> CASE c = "." -> 46 [] c = "/" -> 47 [] c = "_" -> 95] @@
    ("a" :> 97 @@ "b" :> 98 @@ "c" :> 99 @@ "d" :> 100 @@ "e" :> 101 @@ "g" :> 103
     @@ "i" :> 105 @@ "j" :> 106 @@ "m" :> 109 @@ "n" :> 110 @@ "o" :> 111 @@ "p" :> 112
     @@ "r" :> 114 @@ "s" :> 115 @@ "t" :> 116 @@ "v" :> 118 @@ "x" :> 120 @@ "y" :> 121)

\* a < b for Python strings: by the first differing character, a proper
\* prefix first.
StrLess(a, b) ==
    \E i \in 1..(Len(b)) :
        /\ \A j \in 1..(i - 1) : j <= Len(a) /\ a[j] = b[j]
        /\ i - 1 <= Len(a)
        /\ (i > Len(a) \/ Ord[a[i]] < Ord[b[i]])

\* k1 < k2 for the Python tuples (number, string, number, number).
KeyLess(k1, k2) ==
    \/ k1[1] < k2[1]
    \/ /\ k1[1] = k2[1]
       /\ \/ StrLess(k1[2], k2[2])
          \/ /\ k1[2] = k2[2]
             /\ \/ k1[3] < k2[3]
                \/ (k1[3] = k2[3] /\ k1[4] < k2[4])

\* list.sort / sorted on a list of <<key, item>> pairs: a stable sort, items
\* with equal keys keep their order.
RECURSIVE InsertStable(_, _)
InsertStable(sorted, x) ==
    IF sorted = <<>> THEN <<x>>
    ELSE IF KeyLess(x[1], Last(sorted)[1])
    THEN Append(InsertStable(Front(sorted), x), Last(sorted))
    ELSE Append(sorted, x)

RECURSIVE StableSort(_)
StableSort(s) == IF s = <<>> THEN <<>> ELSE InsertStable(StableSort(Front(s)), Last(s))

\* The permutations of 1..n, for the list lengths the model uses.
PermutationTable ==
    [n \in 0..5 |-> { p \in [1..n -> 1..n] : \A i, j \in 1..n : p[i] = p[j] => i = j }]

PermutationsOf(n) == PermutationTable[n]

(***************************************************************************)
(* config.py                                                               *)
(***************************************************************************)
CHUNK_SIZE == 80

CHUNK_OVERLAP == 10

IMPORTANCE_THRESHOLD == 6

ANALYSIS_BATCH_SIZE == 12

(***************************************************************************)
(* parser.py: chunk_file                                                   *)
(*                                                                         *)
(* A file is what readlines() returns, kept as its number of lines `len`   *)
(* and the set `nonblank` of 1-based line numbers whose text is not all    *)
(* whitespace; `readable` is FALSE when open/read raises.                  *)
(***************************************************************************)
MaxLines == 151

\* The non-blank lines of a file of n lines with non-blank lines p and q
\* (0 for none), or with every line non-blank.
NonBlankLines(n, p, q, all) == IF all THEN 1..n ELSE {p, q} \ {0}

\* end = min(start + CHUNK_SIZE, len(lines))
ChunkEnd_NoClip(start, n) == start + CHUNK_SIZE

ChunkEnd(start, n) == Min(start + CHUNK_SIZE, n)

\* text = "".join(lines[start:end]); text.strip() is non-empty exactly when
\* one of the lines start+1..end (1-based) has a non-whitespace character.
TextStrip(f, start, end) == \E i \in f.nonblank : start < i /\ i <= end

\* The slice lines[start:end], kept as the non-blank lines it holds.
SliceText(f, start, end) == { i \in f.nonblank : start < i /\ i <= end }

RECURSIVE ChunkLoop(_, _, _)
ChunkLoop(f, start, chunks) ==
    IF start < f.len
    THEN LET end == ChunkEnd(start, f.len)
             next == IF TextStrip(f, start, end)
                     THEN Append(chunks, [start_line |-> start + 1,
                                          end_line   |-> end,
                                          text       |-> SliceText(f, start, end)])
                     ELSE chunks
         IN  ChunkLoop(f, start + CHUNK_SIZE - CHUNK_OVERLAP, next)
    ELSE chunks

chunk_file(f) == IF f.readable THEN ChunkLoop(f, 0, <<>>) ELSE <<>>

\* The files chunk_file is run on: unreadable, or of every length up to
\* MaxLines with every line non-blank, none, or one or two anywhere.
InitChunk ==
    /\ phase = "input"
    /\ chunk_file_out = <<>>
    /\ EdgesIdle
    /\ QueryIdle
    /\ HashIdle
    /\ AnalyzeIdle
    /\ IngestIdle
    /\ MoreIdle
    /\ \/ chunk_file_in = [readable |-> FALSE, len |-> 0, nonblank |-> {}]
       \/ \E n \in 0..MaxLines : \E p \in 0..n : \E q \in p..n : \E all \in BOOLEAN :
             chunk_file_in = [readable |-> TRUE, len |-> n,
                              nonblank |-> NonBlankLines(n, p, q, all)]

ChunkFile ==
    /\ phase = "input"
    /\ phase' = "done"
    /\ chunk_file_out' = chunk_file(chunk_file_in)
    /\ UNCHANGED <<chunk_file_in, varsEdges, varsQuery, varsHash, varsAnalyze, varsIngest, varsMore>>

NextChunk == ChunkFile

SpecChunk == InitChunk /\ [][NextChunk]_vars

\* C8: for every readable file, every chunk returned by chunk_file has
\* 1 <= start_line <= end_line <= L, every non-blank line lies in the range of
\* at least one chunk, and start_line and end_line are non-decreasing along
\* the returned sequence.
C8_ChunksCoverAndOrdered ==
    (phase = "done" /\ chunk_file_in.readable) =>
        LET cs == chunk_file_out
            L  == chunk_file_in.len
        IN  /\ \A k \in 1..Len(cs) :
                 1 <= cs[k].start_line /\ cs[k].start_line <= cs[k].end_line
                                       /\ cs[k].end_line <= L
            /\ \A i \in chunk_file_in.nonblank :
                 \E k \in 1..Len(cs) : cs[k].start_line <= i /\ i <= cs[k].end_line
            /\ \A k \in 1..(Len(cs) - 1) :
                 /\ cs[k].start_line <= cs[k + 1].start_line
                 /\ cs[k].end_line <= cs[k + 1].end_line

\* A file whose middle window (lines 71..150) is blank: chunk_file returned the
\* first and the third window and dropped the second.
C8_Witness ==
    /\ phase = "done"
    /\ chunk_file_in.readable
    /\ Cardinality(chunk_file_in.nonblank) = 2
    /\ Len(chunk_file_out) = 2
    /\ chunk_file_out[1].start_line = 1
    /\ chunk_file_out[2].start_line = 2 * (CHUNK_SIZE - CHUNK_OVERLAP) + 1

(***************************************************************************)
(* parser.py: import resolution and edge extraction                        *)
(*                                                                         *)
(* Paths and module specifiers are strings, kept as sequences of           *)
(* one-character strings so that lstrip, replace, join and normpath act    *)
(* on characters as in the code.                                           *)
(***************************************************************************)
Str_py == <<".", "p", "y">>

Str_ts == <<".", "t", "s">>

Str_tsx == <<".", "t", "s", "x">>

Str_js == <<".", "j", "s">>

Str_jsx == <<".", "j", "s", "x">>

Str_index == <<"i", "n", "d", "e", "x">>

Str_init == <<"_", "_", "i", "n", "i", "t", "_", "_">>

\* The result None of _resolve_relative_import (normpath never returns "").
None == <<>>

\* s.split("/")
RECURSIVE SplitSlash(_)
SplitSlash(s) ==
    IF \A i \in 1..Len(s) : s[i] # "/"
    THEN <<s>>
    ELSE LET i == CHOOSE k \in 1..Len(s) :
                      s[k] = "/" /\ \A j \in 1..(k - 1) : s[j] # "/"
         IN  <<SubSeq(s, 1, i - 1)>> \o SplitSlash(SubSeq(s, i + 1, Len(s)))

\* "/".join(comps)
RECURSIVE JoinSlash(_)
JoinSlash(comps) ==
    IF comps = <<>> THEN <<>>
    ELSE IF Len(comps) = 1 THEN comps[1]
    ELSE comps[1] \o <<"/">> \o JoinSlash(Tail(comps))

\* posixpath.join(a, b)
PathJoin(a, b) ==
    IF b # <<>> /\ b[1] = "/" THEN b
    ELSE IF a = <<>> \/ a[Len(a)] = "/" THEN a \o b
    ELSE a \o <<"/">> \o b

\* s.rstrip("/")
RECURSIVE RStripSlash(_)
RStripSlash(s) ==
    IF s # <<>> /\ s[Len(s)] = "/" THEN RStripSlash(SubSeq(s, 1, Len(s) - 1)) ELSE s

\* The index after the last "/" of p, minus one (p.rfind("/") + 1).
LastSlash(p) ==
    IF \E i \in 1..Len(p) : p[i] = "/"
    THEN CHOOSE i \in 1..Len(p) : p[i] = "/" /\ \A j \in (i + 1)..Len(p) : p[j] # "/"
    ELSE 0

\* posixpath.dirname(p)
PathDirname(p) ==
    LET head == SubSeq(p, 1, LastSlash(p))
    IN  IF head # <<>> /\ \E i \in 1..Len(head) : head[i] # "/"
        THEN RStripSlash(head)
        ELSE head

\* posixpath.basename(p)
PathBasename(p) == SubSeq(p, LastSlash(p) + 1, Len(p))

\* pathlib.Path(p).suffix: the last dotted suffix of the file name, "" when the
\* name has no dot except a leading or a trailing one.
PathSuffix(p) ==
    LET name == PathBasename(RStripSlash(p))
        dots == { i \in 1..Len(name) : name[i] = "." }
    IN  IF dots = {} THEN <<>>
        ELSE LET i == CHOOSE k \in dots : \A j \in dots : j <= k
             IN  IF i = 1 \/ i = Len(name) THEN <<>>
                 ELSE SubSeq(name, i, Len(name))

\* The loop of posixpath.normpath over the components of the path.
RECURSIVE NormComps(_, _, _)
NormComps(comps, new_comps, initial_slashes) ==
    IF comps = <<>> THEN new_comps
    ELSE LET comp == Head(comps)
             n    == Len(new_comps)
         IN  IF comp = <<>> \/ comp = <<".">>
             THEN NormComps(Tail(comps), new_comps, initial_slashes)
             ELSE IF \/ comp # <<".", ".">>
                     \/ (initial_slashes = 0 /\ n = 0)
                     \/ (n > 0 /\ new_comps[n] = <<".", ".">>)
             THEN NormComps(Tail(comps), Append(new_comps, comp), initial_slashes)
             ELSE IF n > 0
             THEN NormComps(Tail(comps), SubSeq(new_comps, 1, n - 1), initial_slashes)
             ELSE NormComps(Tail(comps), new_comps, initial_slashes)

\* posixpath.normpath(path)
NormPath(path) ==
    IF path = <<>> THEN <<".">>
    ELSE LET initial_slashes ==
                 IF path[1] # "/" THEN 0
                 ELSE IF Len(path) >= 2 /\ path[2] = "/" /\ ~(Len(path) >= 3 /\ path[3] = "/")
                 THEN 2 ELSE 1
             body == JoinSlash(NormComps(SplitSlash(path), <<>>, initial_slashes))
             out  == [i \in 1..initial_slashes |-> "/"] \o body
         IN  IF out = <<>> THEN <<".">> ELSE out

\* only one leading "./" dropped, as target.removeprefix("./") would
LStripDotSlash_PrefixOnly(t) ==
    IF Len(t) >= 2 /\ t[1] = "." /\ t[2] = "/" THEN SubSeq(t, 3, Len(t)) ELSE t

\* target.lstrip("./"): drops every leading "." and "/" character.
RECURSIVE LStripDotSlash(_)
LStripDotSlash(t) ==
    IF t # <<>> /\ t[1] \in {".", "/"} THEN LStripDotSlash(Tail(t)) ELSE t

\* target.replace(".", "/")
ReplaceDots(t) == [i \in 1..Len(t) |-> IF t[i] = "." THEN "/" ELSE t[i]]

\* The candidates built from the importing file's directory, in order.
RelativeCandidates(source_dir, target) ==
    << NormPath(PathJoin(source_dir, target)),
       NormPath(PathJoin(source_dir, target \o Str_py)),
       NormPath(PathJoin(source_dir, target \o Str_ts)),
       NormPath(PathJoin(source_dir, target \o Str_tsx)),
       NormPath(PathJoin(source_dir, target \o Str_js)),
       NormPath(PathJoin(source_dir, target \o Str_jsx)),
       NormPath(PathJoin(PathJoin(source_dir, target), Str_index \o Str_ts)),
       NormPath(PathJoin(PathJoin(source_dir, target), Str_index \o Str_tsx)),
       NormPath(PathJoin(PathJoin(source_dir, target), Str_index \o Str_js)),
       NormPath(PathJoin(PathJoin(source_dir, target), Str_init \o Str_py)) >>

\* The candidates of the dotted translation from the repository root, in order.
DottedCandidates(target) ==
    LET dotted == ReplaceDots(target)
    IN  << NormPath(dotted),
           NormPath(dotted \o Str_py),
           NormPath(dotted \o <<"/">> \o Str_init \o Str_py) >>

\* The first element of the candidate list that is in all_files, or None.
FirstIn(cands, all_files) ==
    IF \E i \in 1..Len(cands) : cands[i] \in all_files
    THEN cands[CHOOSE i \in 1..Len(cands) :
                 cands[i] \in all_files /\ \A j \in 1..(i - 1) : cands[j] \notin all_files]
    ELSE None

\* the dotted translation tried before the candidates of the directory
resolve_DottedFirst(source_file, target_raw, all_files) ==
    LET source_dir == PathDirname(source_file)
        target     == LStripDotSlash(target_raw)
        c          == FirstIn(DottedCandidates(target), all_files)
    IN  IF c # None THEN c ELSE FirstIn(RelativeCandidates(source_dir, target), all_files)

_resolve_relative_import(source_file, target_raw, all_files) ==
    LET source_dir == PathDirname(source_file)
        target     == LStripDotSlash(target_raw)
        c          == FirstIn(RelativeCandidates(source_dir, target), all_files)
    IN  IF c # None THEN c ELSE FirstIn(DottedCandidates(target), all_files)



\* The extensions _IMPORT_PATTERNS has an entry for.
PatternExtensions ==
    { Str_py, Str_js, Str_jsx, Str_ts, Str_tsx,
      <<".", "g", "o">>, <<".", "r", "s">>, <<".", "j", "a", "v", "a">>, <<".", "r", "b">> }

\* Whether a pattern of the extension can capture the specifier: the Python
\* and Java groups are [\w.]+, the JS/TS, Go and Ruby groups take any
\* character but a quote, the Rust group is [\w:]+.
Capturable(ext, spec) ==
    /\ spec # <<>>
    /\ ext \in PatternExtensions
    /\ ext \in {Str_py, <<".", "j", "a", "v", "a">>} => \A i \in 1..Len(spec) : spec[i] # "/"
    /\ ext = <<".", "r", "s">> => \A i \in 1..Len(spec) : spec[i] \notin {"/", "."}

MaxMatches == 3

\* The repository's files, in the sorted order walk_files returns them in.
FileUniverse ==
    << <<"a", "/", "b">> \o Str_py,
       <<"a", "/", "b">> \o Str_ts,
       <<"a", "/", "c">> \o Str_py,
       <<"a", "/", "c", "/">> \o Str_init \o Str_py,
       <<"c">> \o Str_py >>

\* The specifiers the import patterns capture: a prefix of dots and slashes
\* before a module or path.
SpecifierPrefixes == { <<>>, <<".">>, <<".", ".">>, <<".", "/">>, <<".", ".", "/">> }

SpecifierBodies ==
    { <<>>, <<"b">>, <<"c">>, <<"a", "/", "c">>, <<"a", ".", "c">>, <<"c">> \o Str_py }

Specifiers == { pre \o body : pre \in SpecifierPrefixes, body \in SpecifierBodies } \ { <<>> }

\* The elements of seq at the positions in S, in order.
RECURSIVE Select(_, _)
Select(seq, S) ==
    IF seq = <<>> THEN <<>>
    ELSE LET n == Len(seq)
             front == Select(SubSeq(seq, 1, n - 1), S)
         IN  IF n \in S THEN Append(front, seq[n]) ELSE front

InitEdges ==
    /\ phase = "input"
    /\ ChunkIdle
    /\ QueryIdle
    /\ HashIdle
    /\ AnalyzeIdle
    /\ IngestIdle
    /\ MoreIdle
    /\ \E S \in SUBSET (1..Len(FileUniverse)) : ee_files = Select(FileUniverse, S)
    /\ ee_pos = 1
    /\ ee_matches = 0
    /\ ee_edges = <<>>
    /\ ee_seen = {}

\* On to the next file: the extension of rel has no patterns (`continue`),
\* reading rel raised (`continue`), or its content holds no further match.
ExtractSkipFile ==
    /\ phase = "input"
    /\ ee_pos <= Len(ee_files)
    /\ ee_pos' = ee_pos + 1
    /\ UNCHANGED <<phase, ee_files, ee_matches, ee_edges, ee_seen, varsChunk, varsQuery, varsHash, varsAnalyze, varsIngest, varsMore>>

\* resolved and resolved != rel
KeepsEdge_AllowSelf(rel, resolved) == resolved # None

KeepsEdge(rel, resolved) == resolved # None /\ resolved # rel

\* One match of a pattern in the content of rel, capturing target_raw.
ExtractMatch(target_raw) ==
    /\ phase = "input"
    /\ ee_pos <= Len(ee_files)
    /\ ee_matches < MaxMatches
    /\ LET rel      == ee_files[ee_pos]
           file_set == Range(ee_files)
           resolved == _resolve_relative_import(rel, target_raw, file_set)
           key      == <<rel, resolved>>
       IN  /\ Capturable(PathSuffix(rel), target_raw)
           /\ IF KeepsEdge(rel, resolved) /\ key \notin ee_seen
              THEN /\ ee_seen' = ee_seen \cup {key}
                   /\ ee_edges' = Append(ee_edges, [source |-> rel, target |-> resolved])
              ELSE UNCHANGED <<ee_seen, ee_edges>>
    /\ ee_matches' = ee_matches + 1
    /\ UNCHANGED <<phase, ee_files, ee_pos, varsChunk, varsQuery, varsHash, varsAnalyze, varsIngest, varsMore>>

\* return edges
ExtractReturn ==
    /\ phase = "input"
    /\ ee_pos > Len(ee_files)
    /\ phase' = "done"
    /\ UNCHANGED <<varsEdges, varsChunk, varsQuery, varsHash, varsAnalyze, varsIngest, varsMore>>

NextEdges ==
    \/ ExtractSkipFile
    \/ \E t \in Specifiers : ExtractMatch(t)
    \/ ExtractReturn

SpecEdges == InitEdges /\ [][NextEdges]_vars

\* C9: the edge list of extract_edges holds no edge whose target equals its
\* source, no edge whose source or target is outside the supplied file list,
\* and no two edges with the same (source, target) pair.
C9_EdgesWellFormed ==
    /\ \A i \in 1..Len(ee_edges) :
         /\ ee_edges[i].source # ee_edges[i].target
         /\ ee_edges[i].source \in Range(ee_files)
         /\ ee_edges[i].target \in Range(ee_files)
    /\ \A i, j \in 1..Len(ee_edges) :
         (ee_edges[i].source = ee_edges[j].source
            /\ ee_edges[i].target = ee_edges[j].target) => i = j

\* extract_edges returned at least two edges after handling more matches than
\* it kept edges: a self-import, an unresolved or a repeated import was dropped.
C9_Witness ==
    /\ phase = "done"
    /\ Len(ee_edges) >= 2
    /\ ee_matches > Len(ee_edges)

(***************************************************************************)
(* embeddings.py: query_chunks                                             *)
(*                                                                         *)
(* A distance is a float; the model keeps it in units of 10^-7, one digit  *)
(* below the precision round(distance, 6) keeps.                           *)
(***************************************************************************)
MaxResults == 3

\* The chunks of the collection: two line ranges of two files, and for one of
\* them the text an earlier ingest stored for the same range.
QueryFiles == { <<"a", "/", "b">> \o Str_py, <<"c">> \o Str_py }

QueryRanges == { <<1, 80>>, <<71, 100>> }

StoredChunks ==
    { [text |-> "text", file |-> f, start_line |-> r[1], end_line |-> r[2]] :
        f \in QueryFiles, r \in QueryRanges }
    \cup { [text |-> "stale text", file |-> <<"c">> \o Str_py,
            start_line |-> 71, end_line |-> 100] }

\* What the vector search can return: a chunk at a distance, the distances
\* on both sides of a rounding boundary.
QueryDistances == { 4, 6, 14 }

QueryMatches ==
    { [text |-> c.text, file |-> c.file, start_line |-> c.start_line,
       end_line |-> c.end_line, distance |-> d] : c \in StoredChunks, d \in QueryDistances }

\* round(distance, 6): to the nearest multiple of 10^-6, a half to the even
\* one; the result in units of 10^-6.
Round6(d) ==
    LET q == d \div 10
        r == d % 10
    IN  IF r < 5 THEN q
        ELSE IF r > 5 THEN q + 1
        ELSE IF q % 2 = 0 THEN q ELSE q + 1

\* The key of out.sort, on a chunk whose distance is already rounded.
SortKey_NoDistance(c) == <<0, c.file, c.start_line, c.end_line>>

SortKey(c) == <<c.distance, c.file, c.start_line, c.end_line>>

\* chunk.pop("distance", None)
PopDistance(c) ==
    [text |-> c.text, file |-> c.file, start_line |-> c.start_line, end_line |-> c.end_line]

\* query_chunks from the results of coll.query on.
query_chunks(results) ==
    LET out     == [i \in 1..Len(results) |->
                      [results[i] EXCEPT !.distance = Round6(results[i].distance)]]
        sorted  == StableSort([i \in 1..Len(out) |-> <<SortKey(out[i]), out[i]>>])
    IN  [i \in 1..Len(sorted) |-> PopDistance(sorted[i][2])]

InitQuery ==
    /\ phase = "input"
    /\ ChunkIdle
    /\ EdgesIdle
    /\ HashIdle
    /\ AnalyzeIdle
    /\ IngestIdle
    /\ MoreIdle
    /\ \E n \in 0..MaxResults : \E r \in [1..n -> QueryMatches] :
          qc_results = <<r, <<>>>>
    /\ qc_out = <<<<>>, <<>>>>

\* The first call of query_chunks.
QueryChunks ==
    /\ phase = "input"
    /\ phase' = "done"
    /\ qc_out' = [qc_out EXCEPT ![1] = query_chunks(qc_results[1])]
    /\ UNCHANGED <<qc_results, varsChunk, varsEdges, varsHash, varsAnalyze, varsIngest, varsMore>>

NextQuery == QueryChunks

SpecQuery == InitQuery /\ [][NextQuery]_vars

\* r2 holds the matches of r1 in another order.
IsReordering(r1, r2) ==
    /\ Len(r1) = Len(r2)
    /\ \E p \in PermutationsOf(Len(r1)) : \A i \in 1..Len(r1) : r2[i] = r1[p[i]]

\* r2 holds the matches of r1 in the same order, each distance off by less
\* than the rounding precision (10 units of 10^-7).
IsJitter(r1, r2) ==
    /\ Len(r1) = Len(r2)
    /\ \A i \in 1..Len(r1) :
         /\ PopDistance(r1[i]) = PopDistance(r2[i])
         /\ r1[i].distance - r2[i].distance < 10
         /\ r2[i].distance - r1[i].distance < 10

\* The vector search of a second call with the same repository and query: the
\* same matches in some order, or the same matches with jitter in the distances.
VectorSearchAgain ==
    /\ phase = "done"
    /\ phase' = "again"
    /\ LET r1 == qc_results[1]
           n  == Len(r1)
       IN  \/ \E p \in PermutationsOf(n) :
                qc_results' = [qc_results EXCEPT ![2] = [i \in 1..n |-> r1[p[i]]]]
           \/ \E ds \in [1..n -> QueryDistances] :
                LET r2 == [i \in 1..n |-> [r1[i] EXCEPT !.distance = ds[i]]]
                IN  /\ IsJitter(r1, r2)
                    /\ qc_results' = [qc_results EXCEPT ![2] = r2]
    /\ UNCHANGED <<qc_out, varsChunk, varsEdges, varsHash, varsAnalyze, varsIngest, varsMore>>

\* The second call of query_chunks.
QueryChunksAgain ==
    /\ phase = "again"
    /\ phase' = "done2"
    /\ qc_out' = [qc_out EXCEPT ![2] = query_chunks(qc_results[2])]
    /\ UNCHANGED <<qc_results, varsChunk, varsEdges, varsHash, varsAnalyze, varsIngest, varsMore>>

NextQueryTwice == QueryChunks \/ VectorSearchAgain \/ QueryChunksAgain

SpecQueryTwice == InitQuery /\ [][NextQueryTwice]_vars

\* C5: two calls whose vector search returns the same matches in different
\* orders return identical sequences.
C5_OrderIndependent ==
    (phase = "done2" /\ IsReordering(qc_results[1], qc_results[2])) =>
        qc_out[1] = qc_out[2]

\* C6: two calls whose vector search returns the same matches with distances
\* differing by less than 10^-6 return identical sequences.
C6_JitterIndependent ==
    (phase = "done2" /\ IsJitter(qc_results[1], qc_results[2])) =>
        qc_out[1] = qc_out[2]

MaxListLen == 2

HashAnswers == { "answer", "other answer" }

HashChunks == StoredChunks

HashCitations ==
    { [file |-> f, start_line |-> r[1], end_line |-> r[2]] :
        f \in QueryFiles, r \in QueryRanges }

\* key=lambda c: (c.get("file", ""), c.get("start_line", 0), c.get("end_line", 0)),
\* as a 4-tuple with a constant first component.
FileLineKey(c) == <<0, c.file, c.start_line, c.end_line>>

\* sorted(items, key=FileLineKey)
SortedByFileLine(items) ==
    LET sorted == StableSort([i \in 1..Len(items) |-> <<FileLineKey(items[i]), items[i]>>])
    IN  [i \in 1..Len(sorted) |-> sorted[i][2]]

\* json.dumps(value, sort_keys=True, separators=(",", ":")) of a dict: its
\* keys in sorted order, each followed by its value.
JsonDumpsItem(c) ==
    IF "text" \in DOMAIN c
    THEN <<"end_line", c.end_line, "file", c.file, "start_line", c.start_line, "text", c.text>>
    ELSE <<"end_line", c.end_line, "file", c.file, "start_line", c.start_line>>

JsonDumps(normalized) ==
    << "answer", normalized.answer,
       "chunks", [i \in 1..Len(normalized.chunks) |-> JsonDumpsItem(normalized.chunks[i])],
       "citations", [i \in 1..Len(normalized.citations) |->
                        JsonDumpsItem(normalized.citations[i])] >>

\* hashlib.sha256(...).hexdigest(): two digests are equal exactly when the
\* hashed strings are (no collision is modelled).
Sha256(json_str) == <<"sha256", json_str>>

hash_output(output) ==
    LET normalized == [answer    |-> output.answer,
                       citations |-> SortedByFileLine(output.citations),
                       chunks    |-> SortedByFileLine(output.chunks)]
    IN  Sha256(JsonDumps(normalized))

\* The second output: the first with its lists reordered, or with the other
\* answer text.
InitHash ==
    /\ phase = "input"
    /\ ChunkIdle
    /\ EdgesIdle
    /\ QueryIdle
    /\ AnalyzeIdle
    /\ IngestIdle
    /\ MoreIdle
    /\ ho_hashes = <<>>
    /\ \E a \in HashAnswers : \E nc \in 0..MaxListLen : \E nk \in 0..MaxListLen :
         \E cit \in [1..nc -> HashCitations] : \E chk \in [1..nk -> HashChunks] :
           LET o1 == [answer |-> a, citations |-> cit, chunks |-> chk]
           IN  \/ \E p \in PermutationsOf(nc) : \E q \in PermutationsOf(nk) :
                    ho_outputs = << o1, [answer    |-> a,
                                         citations |-> [i \in 1..nc |-> cit[p[i]]],
                                         chunks    |-> [i \in 1..nk |-> chk[q[i]]]] >>
               \/ \E b \in HashAnswers \ {a} :
                    ho_outputs = << o1, [o1 EXCEPT !.answer = b] >>

HashOutputs ==
    /\ phase = "input"
    /\ phase' = "done"
    /\ ho_hashes' = <<hash_output(ho_outputs[1]), hash_output(ho_outputs[2])>>
    /\ UNCHANGED <<ho_outputs, varsChunk, varsEdges, varsQuery, varsAnalyze, varsIngest, varsMore>>

NextHash == HashOutputs

SpecHash == InitHash /\ [][NextHash]_vars

\* C10: hash_output gives the same digest to two outputs that differ only by
\* a permutation of their citations or of their chunks, and different digests
\* to two outputs that differ only in answer text.
C10_HashPermutationInvariant ==
    phase = "done" =>
        LET o1 == ho_outputs[1]
            o2 == ho_outputs[2]
        IN  /\ ( /\ o1.answer = o2.answer
                 /\ IsReordering(o1.citations, o2.citations)
                 /\ IsReordering(o1.chunks, o2.chunks) ) => ho_hashes[1] = ho_hashes[2]
            /\ ( /\ o1.answer # o2.answer
                 /\ o1.citations = o2.citations
                 /\ o1.chunks = o2.chunks ) => ho_hashes[1] # ho_hashes[2]


(***************************************************************************)
(* llm.py: analyze_repo_files                                              *)
(*                                                                         *)
(* The files of the list are numbered 1..n in list order; 0 is a path the  *)
(* language model made up or renamed.  Reading a file gives text, gives    *)
(* only whitespace ("blank"), or raises ("unreadable").                    *)
(***************************************************************************)
MaxFiles == 13

\* file_contents: the files whose text.strip() is non-empty, in list order.
RECURSIVE FileContents(_)
FileContents(files) ==
    IF files = <<>> THEN <<>>
    ELSE LET n == Len(files)
             front == FileContents(Front(files))
         IN  IF files[n] = "text" THEN Append(front, n) ELSE front

\* The record a failed batch gives each of its files.
DefaultRecord == [importance_score |-> 3, summary |-> "Analysis unavailable."]

\* results.update(parsed) / results[rel] = ...: the keys of keys get rec.
Update(results, keys, rec) ==
    [k \in (DOMAIN results) \cup keys |-> IF k \in keys THEN rec ELSE results[k]]

\* file_contents[i : i + ANALYSIS_BATCH_SIZE], as the set of its files.
Batch(file_contents, i) ==
    { file_contents[k] : k \in (i + 1)..Min(i + ANALYSIS_BATCH_SIZE, Len(file_contents)) }

\* The keys of a parsed JSON object of the language model for a batch: every
\* file of the batch, or all but its first or its last file, with or without
\* a path that is not in the batch.
ParsedKeys(batch, omit, extra) ==
    LET lo == CHOOSE f \in batch : \A g \in batch : f <= g
        hi == CHOOSE f \in batch : \A g \in batch : g <= f
    IN  (batch \ (CASE omit = "none" -> {} [] omit = "first" -> {lo} [] omit = "last" -> {hi}))
        \cup (IF extra THEN {0} ELSE {})

InitAnalyze ==
    /\ phase = "input"
    /\ ChunkIdle
    /\ EdgesIdle
    /\ QueryIdle
    /\ HashIdle
    /\ IngestIdle
    /\ MoreIdle
    /\ \E n \in 0..MaxFiles : \E odd \in 0..n : \E kind \in {"blank", "unreadable"} :
          ar_files = [k \in 1..n |-> IF k = odd THEN kind ELSE "text"]
    /\ ar_i = 0
    /\ ar_results = << >>

\* One batch whose request raised, or whose reply is no JSON, or is JSON that
\* is not an object: the except branch gives every file of the batch the
\* default record.
AnalyzeBatchFailed ==
    /\ phase = "input"
    /\ ar_i < Len(FileContents(ar_files))
    /\ ar_results' = Update(ar_results, Batch(FileContents(ar_files), ar_i), DefaultRecord)
    /\ ar_i' = ar_i + ANALYSIS_BATCH_SIZE
    /\ UNCHANGED <<phase, ar_files, varsChunk, varsEdges, varsQuery, varsHash, varsIngest, varsMore>>

\* One batch whose reply parses to a JSON object: results.update(parsed).
AnalyzeBatchParsed(omit, extra, score) ==
    /\ phase = "input"
    /\ ar_i < Len(FileContents(ar_files))
    /\ ar_results' = Update(ar_results,
                            ParsedKeys(Batch(FileContents(ar_files), ar_i), omit, extra),
                            [importance_score |-> score, summary |-> "summary"])
    /\ ar_i' = ar_i + ANALYSIS_BATCH_SIZE
    /\ UNCHANGED <<phase, ar_files, varsChunk, varsEdges, varsQuery, varsHash, varsIngest, varsMore>>

\* return results
AnalyzeReturn ==
    /\ phase = "input"
    /\ ar_i >= Len(FileContents(ar_files))
    /\ phase' = "done"
    /\ UNCHANGED <<varsAnalyze, varsChunk, varsEdges, varsQuery, varsHash, varsIngest, varsMore>>

NextAnalyze ==
    \/ AnalyzeBatchFailed
    \/ \E omit \in {"none", "first", "last"} : \E extra \in BOOLEAN : \E score \in {0, 10} :
          AnalyzeBatchParsed(omit, extra, score)
    \/ AnalyzeReturn

SpecAnalyze == InitAnalyze /\ [][NextAnalyze]_vars

\* C1: whatever each file's readability and content and whatever each batch
\* call gives, the map analyze_repo_files returns has a record for every file
\* of the input list.
C1_EveryFileHasRecord ==
    phase = "done" => \A f \in 1..Len(ar_files) : f \in DOMAIN ar_results

(***************************************************************************)
(* main.py: the graph cache (_save_graph, _load_graph), the ingest stream  *)
(* and the endpoints that read the cache, for one repository id.           *)
(*                                                                         *)
(* Endpoints are plain functions and the ingest response iterates a plain  *)
(* generator, so each request runs on its own worker thread: requests      *)
(* interleave at every access of the shared stores.  An action below is    *)
(* the code from one access of a shared store to the next.                 *)
(*                                                                         *)
(* An entry is the dict handed to _save_graph.  json.dump streams it to    *)
(* the file in pieces; two pieces are kept apart here: head (files, edges, *)
(* root) and tail (file_analyses, onboarding_path and the closing brace).  *)
(* Each piece is tagged with the thread whose data it holds.               *)
(***************************************************************************)
MaxRuns == 2

MaxChunks == 2

Runs == 1..MaxRuns

GraphThread == 0

Threads == {GraphThread} \cup Runs

Hole == -1

HoleTail == [gen |-> Hole, analyses |-> "absent", path |-> "absent"]

\* open(path, "w") has truncated the file and nothing is written yet
EmptyFile == [head |-> Hole, tail |-> HoleTail]

\* data = {"files": files, "edges": edges, "root": repo_path} of /graph
GraphData == [head |-> GraphThread,
              tail |-> [gen |-> GraphThread, analyses |-> "absent", path |-> "absent"]]

\* the dict ingest hands to _save_graph, before its analyses and path are known
IngestData(r) == [head |-> r, tail |-> [gen |-> r, analyses |-> "empty", path |-> "empty"]]

\* json.load of the file: a file with a piece missing does not parse; a file
\* whose pieces come from different writers parses only when the pieces
\* happen to line up, and then gives an entry mixed from both
JsonLoad(file) ==
    IF file.head = Hole \/ file.tail.gen = Hole
    THEN {[kind |-> "raised", entry |-> <<>>]}
    ELSE IF file.head = file.tail.gen
    THEN {[kind |-> "entry", entry |-> <<file>>]}
    ELSE {[kind |-> "raised", entry |-> <<>>], [kind |-> "entry", entry |-> <<file>>]}

\* _load_graph: what the call can return in the current state, with the
\* in-process store it leaves behind
_load_graph ==
    IF graph_cache # <<>>
    THEN {[kind |-> "entry", entry |-> graph_cache, cache |-> graph_cache]}
    ELSE IF disk = <<>>
    THEN {[kind |-> "none", entry |-> <<>>, cache |-> <<>>]}
    ELSE {[kind |-> o.kind, entry |-> o.entry, cache |-> o.entry] : o \in JsonLoad(disk[1])}

Loaded(res) == [kind |-> res.kind, entry |-> res.entry]

\* collection_has_data
collection_has_data == Len(collection) > 0

\* store_chunks: upsert of ids rid_0 .. rid_(n-1); nothing is ever deleted
store_chunks(r, n) ==
    IF n = 0 THEN collection
    ELSE [i \in 1..(IF n > Len(collection) THEN n ELSE Len(collection)) |->
             IF i <= n THEN r ELSE collection[i]]

Emit(r, evs) == events' = [events EXCEPT ![r] = @ \o evs]

Goto(t, label) == pc' = [pc EXCEPT ![t] = label]

varsOther == <<phase, varsChunk, varsEdges, varsQuery, varsHash, varsAnalyze, varsMore>>

Init ==
    /\ phase = "ingest"
    /\ ChunkIdle
    /\ EdgesIdle
    /\ QueryIdle
    /\ HashIdle
    /\ AnalyzeIdle
    /\ MoreIdle
    /\ graph_cache = <<>>
    /\ disk = <<>>
    /\ clone_dir = "absent"
    /\ collection = <<>>
    /\ pc = [t \in Threads |-> "idle"]
    /\ events = [r \in Runs |-> <<>>]
    /\ data = [t \in Threads |-> EmptyFile]
    /\ last_load = [kind |-> "nocall", entry |-> <<>>]

\* generate(): the cache check; runs are numbered in the order they start
IngestStart(r, force) ==
    /\ pc[r] = "idle"
    /\ r > 1 => pc[r - 1] # "idle"
    /\ \E res \in _load_graph :
          /\ graph_cache' = res.cache
          /\ last_load' = Loaded(res)
          /\ IF res.kind = "raised"
             THEN Goto(r, "closed") /\ UNCHANGED events
             ELSE IF /\ ~force
                     /\ res.kind = "entry"
                     /\ res.entry[1].tail.analyses = "records"
                     /\ collection_has_data
             THEN Goto(r, "closed") /\ Emit(r, <<"pathing", "done_cached">>)
             ELSE Goto(r, "clone") /\ Emit(r, <<"cloning">>)
    /\ UNCHANGED <<disk, clone_dir, collection, data, varsOther>>

\* clone_repo raised
CloneFailed(r) ==
    /\ pc[r] = "clone"
    /\ clone_dir' = "partial"
    /\ Emit(r, <<"error">>)
    /\ Goto(r, "closed")
    /\ UNCHANGED <<graph_cache, disk, collection, data, last_load, varsOther>>

\* clone_repo returned; walk_files and chunk_file
Cloned(r) ==
    /\ pc[r] = "clone"
    /\ clone_dir' = "cloned"
    /\ Emit(r, <<"scanning", "scanning", "embedding">>)
    /\ Goto(r, "embed")
    /\ UNCHANGED <<graph_cache, disk, collection, data, last_load, varsOther>>

\* store_chunks raised and the stream went on to the next stages all the same
EmbedFailed_Continues(r) ==
    /\ pc[r] = "embed"
    /\ Emit(r, <<"error", "graphing", "analyzing">>)
    /\ Goto(r, "analyze")
    /\ UNCHANGED <<graph_cache, disk, clone_dir, collection, data, last_load, varsOther>>

\* store_chunks raised
EmbedFailed(r) ==
    /\ pc[r] = "embed"
    /\ Emit(r, <<"error">>)
    /\ Goto(r, "closed")
    /\ UNCHANGED <<graph_cache, disk, clone_dir, collection, data, last_load, varsOther>>

\* store_chunks returned, with n chunks; extract_edges
Embedded(r, n) ==
    /\ pc[r] = "embed"
    /\ collection' = store_chunks(r, n)
    /\ Emit(r, <<"graphing", "analyzing">>)
    /\ Goto(r, "analyze")
    /\ UNCHANGED <<graph_cache, disk, clone_dir, data, last_load, varsOther>>

\* analyze_repo_files: records, an empty map, or an exception (caught: {})
Analyzed(r, outcome) ==
    /\ pc[r] = "analyze"
    /\ data' = [data EXCEPT ![r] =
                  [IngestData(r) EXCEPT !.tail.analyses =
                      IF outcome = "records" THEN "records" ELSE "empty"]]
    /\ Emit(r, <<"pathing">>)
    /\ Goto(r, "path")
    /\ UNCHANGED <<graph_cache, disk, clone_dir, collection, last_load, varsOther>>

\* generate_onboarding_path: steps, or an exception (caught: [])
Pathed(r, outcome) ==
    /\ pc[r] = "path"
    /\ data' = [data EXCEPT ![r].tail.path =
                  IF outcome = "steps" THEN "steps" ELSE "empty"]
    /\ Goto(r, "save")
    /\ UNCHANGED <<graph_cache, disk, clone_dir, collection, events, last_load, varsOther>>

\* _save_graph: open(path, "w") creates or truncates the file
SaveOpen(t) ==
    /\ pc[t] = "save"
    /\ disk' = <<EmptyFile>>
    /\ Goto(t, "save_head")
    /\ UNCHANGED <<graph_cache, clone_dir, collection, events, data, last_load, varsOther>>

\* _save_graph: makedirs or open raised; nothing around the call catches it
SaveOpenFailed(t) ==
    /\ pc[t] = "save"
    /\ Goto(t, IF t = GraphThread THEN "idle" ELSE "closed")
    /\ data' = [data EXCEPT ![t] = EmptyFile]
    /\ UNCHANGED <<graph_cache, disk, clone_dir, collection, events, last_load, varsOther>>

\* _save_graph: json.dump writes files, edges and root at this writer's offset
SaveWriteHead(t) ==
    /\ pc[t] = "save_head"
    /\ disk' = <<[disk[1] EXCEPT !.head = data[t].head]>>
    /\ Goto(t, "save_tail")
    /\ UNCHANGED <<graph_cache, clone_dir, collection, events, data, last_load, varsOther>>

\* _save_graph: json.dump writes the rest, the file is closed
SaveWriteTail(t) ==
    /\ pc[t] = "save_tail"
    /\ disk' = <<[disk[1] EXCEPT !.tail = data[t].tail]>>
    /\ Goto(t, "save_assign")
    /\ UNCHANGED <<graph_cache, clone_dir, collection, events, data, last_load, varsOther>>

\* _save_graph: _graph_cache[repo_id] = data; then ingest yields done and
\* /graph builds its response
SaveAssign(t) ==
    /\ pc[t] = "save_assign"
    /\ graph_cache' = <<data[t]>>
    /\ data' = [data EXCEPT ![t] = EmptyFile]
    /\ IF t = GraphThread
       THEN Goto(t, "idle") /\ UNCHANGED events
       ELSE Goto(t, "closed") /\ Emit(t, <<"done">>)
    /\ UNCHANGED <<disk, clone_dir, collection, last_load, varsOther>>

\* graph(): with no entry but a clone directory it computes files and edges
\* itself and saves them
Graph ==
    /\ pc[GraphThread] = "idle"
    /\ \E res \in _load_graph :
          /\ graph_cache' = res.cache
          /\ last_load' = Loaded(res)
          /\ IF res.kind = "none" /\ clone_dir # "absent"
             THEN Goto(GraphThread, "save") /\ data' = [data EXCEPT ![GraphThread] = GraphData]
             ELSE UNCHANGED <<pc, data>>
    /\ UNCHANGED <<disk, clone_dir, collection, events, varsOther>>

\* onboarding()
Onboarding ==
    /\ \E res \in _load_graph :
          /\ graph_cache' = res.cache
          /\ last_load' = Loaded(res)
    /\ UNCHANGED <<disk, clone_dir, collection, pc, events, data, varsOther>>

\* get_source()
GetSource ==
    /\ \E res \in _load_graph :
          /\ graph_cache' = res.cache
          /\ last_load' = Loaded(res)
    /\ UNCHANGED <<disk, clone_dir, collection, pc, events, data, varsOther>>

\* the process terminates and is started again: the in-process store and
\* every running request are gone, files and the vector store stay
Restart ==
    /\ graph_cache' = <<>>
    /\ pc' = [t \in Threads |->
                IF t = GraphThread THEN "idle"
                ELSE IF pc[t] \in {"idle", "closed"} THEN pc[t] ELSE "killed"]
    /\ data' = [t \in Threads |-> EmptyFile]
    /\ UNCHANGED <<disk, clone_dir, collection, events, last_load, varsOther>>

Next ==
    \/ \E r \in Runs : \E force \in BOOLEAN : IngestStart(r, force)
    \/ \E r \in Runs : CloneFailed(r)
    \/ \E r \in Runs : Cloned(r)
    \/ \E r \in Runs : EmbedFailed(r)
    \/ \E r \in Runs : \E n \in 0..MaxChunks : Embedded(r, n)
    \/ \E r \in Runs : \E outcome \in {"records", "empty", "raised"} : Analyzed(r, outcome)
    \/ \E r \in Runs : \E outcome \in {"steps", "raised"} : Pathed(r, outcome)
    \/ \E t \in Threads : SaveOpen(t)
    \/ \E t \in Threads : SaveOpenFailed(t)
    \/ \E t \in Threads : SaveWriteHead(t)
    \/ \E t \in Threads : SaveWriteTail(t)
    \/ \E t \in Threads : SaveAssign(t)
    \/ Graph
    \/ Onboarding
    \/ GetSource
    \/ Restart

Spec == Init /\ [][Next]_vars

Terminal(e) == e \in {"done", "done_cached", "error"}

\* C2: whenever a stage of an ingest fails, its stream ends with an error
\* event and at that point the repository has no graph-cache entry, neither
\* in the in-process store nor in the durable one, whatever happened before.
C2_FailureLeavesNoEntry ==
    [][\A r \in Runs :
          (pc[r] \in {"clone", "embed"} /\ pc'[r] = "closed")
             => /\ Last(events'[r]) = "error"
                /\ graph_cache' = <<>>
                /\ disk' = <<>>]_vars

\* C3: every _load_graph returns no entry or a complete entry all of whose
\* parts were written by one single ingest run; it never raises on, or
\* returns, a partially written or mixed entry.
C3_ReadsAreWholeGenerations ==
    \/ last_load.kind \in {"nocall", "none"}
    \/ /\ last_load.kind = "entry"
       /\ last_load.entry[1].head \in Runs
       /\ last_load.entry[1].tail.gen = last_load.entry[1].head

\* C4: a finished ingest stream holds exactly one terminal event (done or
\* error) and that event is its last one.
C4_OneTerminalEventLast ==
    \A r \in Runs :
        pc[r] = "closed" =>
            /\ events[r] # <<>>
            /\ Terminal(Last(events[r]))
            /\ \A i \in 1..(Len(events[r]) - 1) : ~Terminal(events[r][i])

Emitted(r, e) == \E i \in 1..Len(events[r]) : events[r][i] = e

\* C11: an ingest whose clone and embedding stages succeeded (it reached the
\* graphing stage) ends its stream with a done event and never with an error
\* event, whatever analysis and onboarding-path generation gave, and its
\* entry has then been saved.
C11_AnalysisNeverAbortsIngest ==
    \A r \in Runs :
        (pc[r] = "closed" /\ Emitted(r, "graphing")) =>
            /\ Last(events[r]) = "done"
            /\ ~Emitted(r, "error")
            /\ disk # <<>>

(***************************************************************************)
(* llm.py: generate_onboarding_path                                        *)
(*                                                                         *)
(* file_analyses is a dict: its items are kept as a sequence in insertion  *)
(* order, the file being the position.  A record may lack the keys the     *)
(* language model was asked for (analyze_repo_files stores its parsed      *)
(* reply unchecked): score NoScore is a record without importance_score.   *)
(***************************************************************************)
MaxAnalyses == 11

TOP_FALLBACK == 10

NoScore == -1

GENERIC_REASON == "Sorted by importance score"

\* a.get("importance_score", 0)
GetScore(a) == IF a.score = NoScore THEN 0 ELSE a.score

\* sorted(items, key=score, reverse=True): stable, equal scores keep their order
RECURSIVE InsertDesc(_, _)
InsertDesc(sorted, x) ==
    IF sorted = <<>> THEN <<x>>
    ELSE IF GetScore(Last(sorted)) < GetScore(x)
    THEN Append(InsertDesc(Front(sorted), x), Last(sorted))
    ELSE Append(sorted, x)

RECURSIVE SortedDesc(_)
SortedDesc(items) ==
    IF items = <<>> THEN <<>> ELSE InsertDesc(SortedDesc(Front(items)), Last(items))

RECURSIVE Filter(_, _)
Filter(items, threshold) ==
    IF items = <<>> THEN <<>>
    ELSE IF GetScore(Last(items)) >= threshold
    THEN Append(Filter(Front(items), threshold), Last(items))
    ELSE Filter(Front(items), threshold)

\* important: the files at or above the threshold
Important_NoFallback(file_analyses) == Filter(file_analyses, IMPORTANCE_THRESHOLD)

\* important: the files at or above the threshold, or the top 10 by score
Important(file_analyses) ==
    IF Filter(file_analyses, IMPORTANCE_THRESHOLD) # <<>>
    THEN Filter(file_analyses, IMPORTANCE_THRESHOLD)
    ELSE SubSeq(SortedDesc(file_analyses), 1, Min(TOP_FALLBACK, Len(file_analyses)))

\* the prompt reads a['importance_score'] and a['summary'] of every important
\* file, outside the try block: a missing key raises KeyError
PromptRaises(important) ==
    \E i \in 1..Len(important) : important[i].score = NoScore \/ ~important[i].summary

\* the enriched step of a path element
Enriched(file_analyses, file, reason) ==
    IF file \in 1..Len(file_analyses)
    THEN [file |-> file, reason |-> reason,
          importance_score |-> GetScore(file_analyses[file]),
          summary |-> IF file_analyses[file].summary THEN "summary" ELSE ""]
    ELSE [file |-> file, reason |-> reason, importance_score |-> 0, summary |-> ""]

generate_onboarding_path(file_analyses, reply) ==
    LET important == Important(file_analyses)
        fallback == [i \in 1..Len(important) |->
                        Enriched(file_analyses, SortedDesc(important)[i].file, GENERIC_REASON)]
    IN  IF PromptRaises(important) THEN [kind |-> "raised", steps |-> <<>>]
        ELSE IF reply.kind \in {"raised", "unparseable"}
        THEN [kind |-> "path", steps |-> fallback]
        ELSE IF reply.kind = "notalist" THEN [kind |-> "raised", steps |-> <<>>]
        ELSE [kind |-> "path",
              steps |-> [i \in 1..Len(reply.steps) |->
                            Enriched(file_analyses, reply.steps[i], "reason")]]

\* record i of a dict of n records with score base, except at positions p and q
AnalysisRecord(i, base, p, kp, q, kq) ==
    LET k == IF i = p THEN kp ELSE IF i = q THEN kq ELSE base
    IN  [file |-> i, score |-> IF k = 10 THEN 9 ELSE k, summary |-> k # 10]

\* the replies of the language-model request
Replies(n) ==
    {[kind |-> k, steps |-> <<>>] : k \in {"raised", "unparseable", "notalist", "path"}}
    \cup {[kind |-> "path", steps |-> st] : st \in {<<1>>, <<n + 1>>, <<2, 1>>}}

InitPath ==
    /\ phase = "input"
    /\ ChunkIdle
    /\ EdgesIdle
    /\ QueryIdle
    /\ HashIdle
    /\ AnalyzeIdle
    /\ IngestIdle
    /\ QueryEndpointIdle
    /\ ValidateIdle
    /\ ResolveIdle
    /\ \E n \in 0..MaxAnalyses : \E base \in {3, 6} :
       \E p \in 0..n : \E q \in 0..n : \E kp, kq \in {NoScore, 0, 5, 6, 9, 10} :
          /\ p = 0 => q = 0
          /\ q # 0 => p < q
          /\ op_analyses = [i \in 1..n |-> AnalysisRecord(i, base, p, kp, q, kq)]
          /\ op_reply \in Replies(n)
    /\ op_result = [kind |-> "none", steps |-> <<>>]

GenerateOnboardingPath ==
    /\ phase = "input"
    /\ phase' = "done"
    /\ op_result' = generate_onboarding_path(op_analyses, op_reply)
    /\ UNCHANGED <<op_analyses, op_reply, varsChunk, varsEdges, varsQuery, varsHash,
                   varsAnalyze, varsIngest, varsQueryEndpoint, varsValidate, varsResolve>>

NextPath == GenerateOnboardingPath

SpecPath == InitPath /\ [][NextPath]_vars

Qualifying == {f \in 1..Len(op_analyses) : GetScore(op_analyses[f]) >= IMPORTANCE_THRESHOLD}

\* the function reached its language-model request and the request raised or
\* gave unparseable text
FallbackTaken ==
    /\ phase = "done"
    /\ op_reply.kind \in {"raised", "unparseable"}
    /\ op_result.kind = "path"

\* C12: when the onboarding-path request raises or returns unparseable text,
\* the returned path has exactly one step for each selected file (the files
\* at or above IMPORTANCE_THRESHOLD, or the top 10 by score when none
\* qualifies), in non-increasing importance_score order, each with the
\* generic reason.
C12_FallbackKeepsEverySelectedFile ==
    FallbackTaken =>
        LET st == op_result.steps
            n == Len(op_analyses)
            files == {st[i].file : i \in 1..Len(st)}
        IN  /\ \A i, j \in 1..Len(st) : st[i].file = st[j].file => i = j
            /\ files \subseteq 1..n
            /\ IF Qualifying # {}
               THEN files = Qualifying
               ELSE /\ Len(st) = Min(TOP_FALLBACK, n)
                    /\ \A f \in files : \A g \in (1..n) \ files :
                          GetScore(op_analyses[g]) <= GetScore(op_analyses[f])
            /\ \A i \in 1..(Len(st) - 1) : st[i].importance_score >= st[i + 1].importance_score
            /\ \A i \in 1..Len(st) :
                  /\ st[i].reason = GENERIC_REASON
                  /\ st[i].importance_score = GetScore(op_analyses[st[i].file])

C12_Witness ==
    /\ FallbackTaken
    /\ Qualifying = {}
    /\ Len(op_analyses) > TOP_FALLBACK
    /\ Len(op_result.steps) = TOP_FALLBACK
    /\ op_result.steps[1].importance_score > op_result.steps[TOP_FALLBACK].importance_score
    /\ op_result.steps[1].file > op_result.steps[2].file

(***************************************************************************)
(* main.py: query()                                                        *)
(***************************************************************************)
MaxDocs == 3

NO_RELEVANT_CODE == "No relevant code found for your question."

\* what is in the collection after the ingests of the repository, if any:
\* store_chunks returns before get_collection when there are no chunks
Collections(ingested) ==
    IF ingested
    THEN {[exists |-> docs # {}, docs |-> docs] :
             docs \in {d \in SUBSET StoredChunks : Cardinality(d) <= MaxDocs}}
    ELSE {[exists |-> FALSE, docs |-> {}]}

\* coll.query: the documents of the collection (fewer than n_results), in
\* some order, each at some distance
VectorSearch(docs) ==
    {r \in UNION {[1..n -> QueryMatches] : n \in {Cardinality(docs)}} :
        /\ \A i \in 1..Len(r) : PopDistance(r[i]) \in docs
        /\ \A i, j \in 1..Len(r) : PopDistance(r[i]) = PopDistance(r[j]) => i = j}

Response(status, detail, chunks) == [status |-> status, detail |-> detail, chunks |-> chunks]

InitQueryEndpoint ==
    /\ phase = "serving"
    /\ ChunkIdle
    /\ EdgesIdle
    /\ QueryIdle
    /\ HashIdle
    /\ AnalyzeIdle
    /\ IngestIdle
    /\ PathIdle
    /\ ValidateIdle
    /\ ResolveIdle
    /\ qe_ingested \in BOOLEAN
    /\ qe_collection \in Collections(qe_ingested)
    /\ qe_response = Response(0, "none", <<>>)

\* query(): embedding the question raised
QueryRetrievalFailed ==
    /\ qe_collection' = [qe_collection EXCEPT !.exists = TRUE]
    /\ qe_response' = Response(500, "Retrieval failed", <<>>)
    /\ UNCHANGED <<phase, qe_ingested, varsChunk, varsEdges, varsQuery, varsHash,
                   varsAnalyze, varsIngest, varsPath, varsValidate, varsResolve>>

\* query(): retrieval gave no chunk
QueryNoChunks ==
    /\ \E results \in VectorSearch(qe_collection.docs) :
          /\ query_chunks(results) = <<>>
          /\ qe_response' = Response(200, NO_RELEVANT_CODE, <<>>)
    /\ qe_collection' = [qe_collection EXCEPT !.exists = TRUE]
    /\ UNCHANGED <<phase, qe_ingested, varsChunk, varsEdges, varsQuery, varsHash,
                   varsAnalyze, varsIngest, varsPath, varsValidate, varsResolve>>

\* query(): retrieval gave chunks, generate_answer raised or returned
QueryAnswered(llm_ok) ==
    /\ \E results \in VectorSearch(qe_collection.docs) :
          /\ query_chunks(results) # <<>>
          /\ qe_response' = IF llm_ok
                            THEN Response(200, "answer", query_chunks(results))
                            ELSE Response(500, "LLM generation failed", <<>>)
    /\ qe_collection' = [qe_collection EXCEPT !.exists = TRUE]
    /\ UNCHANGED <<phase, qe_ingested, varsChunk, varsEdges, varsQuery, varsHash,
                   varsAnalyze, varsIngest, varsPath, varsValidate, varsResolve>>

NextQueryEndpoint ==
    \/ QueryRetrievalFailed
    \/ QueryNoChunks
    \/ \E llm_ok \in BOOLEAN : QueryAnswered(llm_ok)

SpecQueryEndpoint == InitQueryEndpoint /\ [][NextQueryEndpoint]_vars

\* C13: a query for a repository id that was never ingested is answered with
\* a not-found outcome, which is neither the transient-failure outcome (HTTP
\* 500) nor the zero-match answer; left aside is the request during which
\* embedding the question really failed.
C13_NeverIngestedIsNotFound ==
    (~qe_ingested /\ qe_response.detail \notin {"none", "Retrieval failed"}) =>
        /\ qe_response.status # 500
        /\ qe_response.detail # NO_RELEVANT_CODE

\* C14: when the process terminates during an ingest, before its done event,
\* the repository has no graph-cache entry after the restart, and the next
\* ingest request runs the full pipeline from the cloning stage.
C14_CrashLeavesNoEntry ==
    [][/\ (\E r \in Runs : pc[r] \notin {"idle", "closed", "killed"} /\ pc'[r] = "killed")
            => (graph_cache' = <<>> /\ disk' = <<>>)
       /\ \A r \in Runs \ {1} :
            (pc[r - 1] = "killed" /\ pc[r] = "idle" /\ pc'[r] # "idle")
               => (pc'[r] = "clone" /\ events'[r] = <<"cloning">>)]_vars

\* an entry with all five fields, all written by one ingest run
WholeIngestEntry(e) ==
    /\ e.head \in Runs
    /\ e.tail.gen = e.head
    /\ e.tail.analyses # "absent"
    /\ e.tail.path # "absent"

\* C15: at every point, every graph-cache entry that exists, in process or
\* durable (a file that holds an entry, not one still being written), was
\* written by one ingest run that completed its stages and has all of files,
\* edges, root, file_analyses and onboarding_path.
C15_EntriesOnlyFromCompletingIngest ==
    /\ graph_cache # <<>> => WholeIngestEntry(graph_cache[1])
    /\ (disk # <<>> /\ disk[1].head # Hole /\ disk[1].tail.gen # Hole)
          => WholeIngestEntry(disk[1])

NoSaveInProgress == \A t \in Threads : pc[t] \notin {"save_head", "save_tail", "save_assign"}

\* C16: once the _save_graph calls made so far have returned, the in-process
\* entry and the durable record hold the same data, so a _load_graph after a
\* restart returns what a _load_graph returned before it.
C16_StoresAgree ==
    (NoSaveInProgress /\ graph_cache # <<>>) => disk = graph_cache

(***************************************************************************)
(* validation.py: validate_deterministic                                   *)
(***************************************************************************)
MaxOutputs == 3

MaxTolerance == 2

\* outputs of repeated runs: two answer texts, and chunk lists that differ in
\* a text or only in the order of two chunks with the same file and lines
ValidateChunks ==
    LET c == [text |-> "text", file |-> <<"c">> \o Str_py, start_line |-> 71, end_line |-> 100]
        stale == [c EXCEPT !.text = "stale text"]
    IN  {<<>>, <<c>>, <<c, stale>>, <<stale, c>>}

ValidateOutputs ==
    {[answer |-> a, citations |-> <<>>, chunks |-> ch] : a \in HashAnswers, ch \in ValidateChunks}

\* len(unique) > tolerance + 1
Exceeds_OffByOne(unique, tolerance) == unique > tolerance

Exceeds(unique, tolerance) == unique > tolerance + 1

validate_deterministic(outputs, tolerance) ==
    LET hashes == {hash_output(outputs[i]) : i \in 1..Len(outputs)}
        answers == {outputs[i].answer : i \in 1..Len(outputs)}
    IN  IF Len(outputs) < 2 THEN [deterministic |-> TRUE, error |-> "none"]
        ELSE IF Exceeds(Cardinality(hashes), tolerance)
        THEN [deterministic |-> FALSE, error |-> "different outputs"]
        ELSE IF Exceeds(Cardinality(answers), tolerance)
        THEN [deterministic |-> FALSE, error |-> "different answers"]
        ELSE [deterministic |-> TRUE, error |-> "none"]

InitValidate ==
    /\ phase = "input"
    /\ ChunkIdle
    /\ EdgesIdle
    /\ QueryIdle
    /\ HashIdle
    /\ AnalyzeIdle
    /\ IngestIdle
    /\ PathIdle
    /\ QueryEndpointIdle
    /\ ResolveIdle
    /\ \E n \in 0..MaxOutputs : vd_outputs \in [1..n -> ValidateOutputs]
    /\ vd_tolerance \in 0..MaxTolerance
    /\ vd_result = [deterministic |-> TRUE, error |-> "not called"]

ValidateDeterministic ==
    /\ phase = "input"
    /\ phase' = "done"
    /\ vd_result' = validate_deterministic(vd_outputs, vd_tolerance)
    /\ UNCHANGED <<vd_outputs, vd_tolerance, varsChunk, varsEdges, varsQuery, varsHash,
                   varsAnalyze, varsIngest, varsPath, varsQueryEndpoint, varsResolve>>

NextValidate == ValidateDeterministic

SpecValidate == InitValidate /\ [][NextValidate]_vars

\* C17: for at least two outputs validate_deterministic answers
\* not-deterministic exactly when the number of distinct hashes or of distinct
\* answer texts is above tolerance + 1; with tolerance 0 it answers
\* deterministic only if all outputs share one hash and one answer text; for
\* fewer than two outputs it answers deterministic.
C17_ValidateThreshold ==
    phase = "done" =>
        LET n == Len(vd_outputs)
            hashes == {hash_output(vd_outputs[i]) : i \in 1..n}
            answers == {vd_outputs[i].answer : i \in 1..n}
        IN  /\ n >= 2 =>
                 (~vd_result.deterministic <=>
                     (Cardinality(hashes) > vd_tolerance + 1
                        \/ Cardinality(answers) > vd_tolerance + 1))
            /\ (n >= 2 /\ vd_tolerance = 0 /\ vd_result.deterministic) =>
                 \A i, j \in 1..n :
                    /\ hash_output(vd_outputs[i]) = hash_output(vd_outputs[j])
                    /\ vd_outputs[i].answer = vd_outputs[j].answer
            /\ n < 2 => vd_result.deterministic

C17_Witness ==
    /\ phase = "done"
    /\ Len(vd_outputs) = 3
    /\ vd_tolerance = 1
    /\ ~vd_result.deterministic
    /\ \A i, j \in 1..Len(vd_outputs) : vd_outputs[i].answer = vd_outputs[j].answer

\* ceil(a / b) for a >= 0, b > 0
CeilDiv(a, b) == (a + b - 1) \div b

\* the window starts 0, W - O, 2 (W - O), ... below the file's length
WindowStarts(f) ==
    {k * (CHUNK_SIZE - CHUNK_OVERLAP) : k \in 0..f.len} \cap 0..(f.len - 1)

\* C18: for a file of L lines none of whose windows is all whitespace,
\* chunk_file returns ceil(max(L - O, 0) / (W - O)) chunks, and for 100 lines
\* exactly the chunks [1, 80] and [71, 100].
C18_ChunkCountFormula ==
    (/\ phase = "done"
     /\ chunk_file_in.readable
     /\ \A start \in WindowStarts(chunk_file_in) :
           TextStrip(chunk_file_in, start, ChunkEnd(start, chunk_file_in.len)))
    => LET L == chunk_file_in.len
       IN  /\ Len(chunk_file_out) =
                CeilDiv(IF L > CHUNK_OVERLAP THEN L - CHUNK_OVERLAP ELSE 0,
                        CHUNK_SIZE - CHUNK_OVERLAP)
           /\ L = 100 =>
                /\ Len(chunk_file_out) = 2
                /\ chunk_file_out[1].start_line = 1 /\ chunk_file_out[1].end_line = 80
                /\ chunk_file_out[2].start_line = 71 /\ chunk_file_out[2].end_line = 100

(***************************************************************************)
(* parser.py: _resolve_relative_import, called on its own                  *)
(***************************************************************************)
MaxResolveFiles == 3

ResolveSources ==
    { <<"a", "/", "b">> \o Str_py, <<"b">> \o Str_py, <<"a", "/", "d", "/", "b">> \o Str_py }

ResolveTargets ==
    { <<"c">>, <<".", "/", "c">>, <<".", ".", "/", "c">>, <<".", "c">>, <<".", ".", "c">>,
      <<"a", ".", "c">>, <<"a", "/", "c">>, <<"c">> \o Str_py, <<".">> }

\* every candidate of the specifier c, seen from a/ and from the root
ResolveUniverse ==
    UNION { { d \o <<"c">>,
              d \o <<"c">> \o Str_py, d \o <<"c">> \o Str_ts, d \o <<"c">> \o Str_tsx,
              d \o <<"c">> \o Str_js, d \o <<"c">> \o Str_jsx,
              d \o <<"c", "/">> \o Str_index \o Str_ts,
              d \o <<"c", "/">> \o Str_index \o Str_tsx,
              d \o <<"c", "/">> \o Str_index \o Str_js,
              d \o <<"c", "/">> \o Str_init \o Str_py } : d \in { <<>>, <<"a", "/">> } }
    \cup ResolveSources

InitResolve ==
    /\ phase = "input"
    /\ ChunkIdle
    /\ EdgesIdle
    /\ QueryIdle
    /\ HashIdle
    /\ AnalyzeIdle
    /\ IngestIdle
    /\ PathIdle
    /\ QueryEndpointIdle
    /\ ValidateIdle
    /\ ri_files \in { {pick[i] : i \in 1..MaxResolveFiles} \ {None} :
                         pick \in [1..MaxResolveFiles -> ResolveUniverse \cup {None}] }
    /\ ri_source \in ResolveSources
    /\ ri_target \in ResolveTargets
    /\ ri_result = <<"?">>

ResolveRelativeImport ==
    /\ phase = "input"
    /\ phase' = "done"
    /\ ri_result' = _resolve_relative_import(ri_source, ri_target, ri_files)
    /\ UNCHANGED <<ri_source, ri_target, ri_files, varsChunk, varsEdges, varsQuery, varsHash,
                   varsAnalyze, varsIngest, varsPath, varsQueryEndpoint, varsValidate>>

NextResolve == ResolveRelativeImport

SpecResolve == InitResolve /\ [][NextResolve]_vars

\* the ordered candidate list of a specifier seen from a directory
ExpectedCandidates(dir, t) ==
    [i \in 1..6 |-> NormPath(PathJoin(dir, t \o <<<<>>, Str_py, Str_ts, Str_tsx, Str_js, Str_jsx>>[i]))]
    \o [i \in 1..4 |-> NormPath(PathJoin(PathJoin(dir, t),
                          <<Str_index \o Str_ts, Str_index \o Str_tsx,
                            Str_index \o Str_js, Str_init \o Str_py>>[i]))]
    \o [i \in 1..3 |-> NormPath(ReplaceDots(t)
                          \o <<<<>>, Str_py, <<"/">> \o Str_init \o Str_py>>[i])]

FullStream ==
    <<"cloning", "scanning", "scanning", "embedding", "graphing", "analyzing", "pathing", "done">>

IsPrefix(s, t) == Len(s) <= Len(t) /\ SubSeq(t, 1, Len(s)) = s

\* the events a stream has carried when its generator is at a given position
StreamAt(r) ==
    CASE pc[r] = "idle" -> events[r] = <<>>
      [] pc[r] = "clone" -> events[r] = SubSeq(FullStream, 1, 1)
      [] pc[r] = "embed" -> events[r] = SubSeq(FullStream, 1, 4)
      [] pc[r] = "analyze" -> events[r] = SubSeq(FullStream, 1, 6)
      [] pc[r] \in {"path", "save", "save_head", "save_tail", "save_assign"} ->
            events[r] = SubSeq(FullStream, 1, 7)
      [] pc[r] = "killed" -> IsPrefix(events[r], FullStream) /\ Len(events[r]) < Len(FullStream)
      [] pc[r] = "closed" ->
            \/ IsPrefix(events[r], FullStream) /\ Len(events[r]) \in {0, 7, 8}
            \/ events[r] = SubSeq(FullStream, 1, 1) \o <<"error">>
            \/ events[r] = SubSeq(FullStream, 1, 4) \o <<"error">>
            \/ events[r] = <<"pathing", "done_cached">>

IngestCompleted(r, force, n, analyses, path) ==
    /\ pc[r] = "idle"
    /\ r > 1 => pc[r - 1] = "closed"
    /\ \E res \in _load_graph :
          /\ res.kind # "raised"
          /\ last_load' = Loaded(res)
          /\ IF /\ ~force
                /\ res.kind = "entry"
                /\ res.entry[1].tail.analyses = "records"
                /\ collection_has_data
             THEN /\ Emit(r, <<"pathing", "done_cached">>)
                  /\ graph_cache' = res.cache
                  /\ UNCHANGED <<disk, clone_dir, collection>>
             ELSE /\ Emit(r, FullStream)
                  /\ clone_dir' = "cloned"
                  /\ collection' = store_chunks(r, n)
                  /\ disk' = <<[IngestData(r) EXCEPT !.tail.analyses = analyses,
                                                     !.tail.path = path]>>
                  /\ graph_cache' = disk'
    /\ Goto(r, "closed")
    /\ UNCHANGED <<data, varsOther>>

NextReingest ==
    \E r \in Runs : \E force \in BOOLEAN : \E n \in 0..MaxChunks :
       \E analyses \in {"records", "empty"} : \E path \in {"steps", "empty"} :
          IngestCompleted(r, force, n, analyses, path)

SpecReingest == Init /\ [][NextReingest]_vars

\* the most recent ingest that ran its pipeline to the done event
LastFullIngest(r) ==
    /\ events[r] = FullStream
    /\ \A q \in Runs : q > r => events[q] # FullStream

\* C21: after any sequence of completed ingests of one repository id the
\* vector collection holds the chunks of the most recent completed ingest
\* and no chunk that an earlier ingest stored.
C21_CollectionIsLastIngest ==
    \A r \in Runs :
        LastFullIngest(r) => \A i \in 1..Len(collection) : collection[i] = r

\* the specifier c behind each of the prefixes "", "./", "../", "." and ".."
DotSlashForms ==
    { <<"c">>, <<".", "/", "c">>, <<".", ".", "/", "c">>, <<".", "c">>, <<".", ".", "c">> }

====
